---- MODULE Spec2Model ----
(***************************************************************************)
(* Model of scan-packages.py, the Shai-Hulud package scanner.              *)
(*                                                                         *)
(* A Python str is the sequence of the code points of its characters       *)
(* ("^1" is <<94, 49>>), so that lstrip, strip, split, replace and         *)
(* startswith are computed character by character, for every character.    *)
(* A Python dict is a sequence of <<key, value>> pairs with distinct keys, *)
(* in insertion order.  A Python set of tuples is a set of pairs.          *)
(***************************************************************************)
EXTENDS Integers, Sequences, FiniteSets, TLC

VARIABLES
    pc,                 \* position of main: which call comes next
    test_mode,          \* '--test' in sys.argv
    feed,               \* what urlopen(CSV_URL) and decode give: [ok, rows]
    csv_file,           \* CSV_FILE on disk: [exists, readable, decodes, write, rows]
    package_json,       \* PACKAGE_JSON on disk: [exists, parse_ok, pkg]
    package_lock,       \* PACKAGE_LOCK on disk: [exists, parse_ok, lock]
    installed_packages, \* main's installed_packages
    lock_packages,      \* main's lock_packages
    infected_packages,  \* main's infected_packages
    infections,         \* main's infections
    exit_code           \* exit status of the process, -1 while it runs

vars == <<pc, test_mode, feed, csv_file, package_json, package_lock,
          installed_packages, lock_packages, infected_packages,
          infections, exit_code>>

(***************************************************************************)
(* Bounds of the explored inputs.                                          *)
(***************************************************************************)
MaxVersionLen == 4
MaxDeps == 1
MaxNest == 2
MaxLockEntries == 2
MaxNodes == 3
MaxRows == 2
MaxCols == 3

(***************************************************************************)
(* Python str methods.                                                     *)
(***************************************************************************)
\* the characters str.strip() and str.split() treat as whitespace, the 29
\* code points of str.isspace: \t \n \v \f \r, U+001C..U+001F, space, U+0085,
\* U+00A0, U+1680, U+2000..U+200A, U+2028, U+2029, U+202F, U+205F, U+3000
Whitespace ==
    (9..13) \cup (28..32) \cup {133, 160, 5760} \cup (8192..8202)
        \cup {8232, 8233, 8239, 8287, 12288}

RECURSIVE lstrip(_, _)
lstrip(s, chars) ==
    IF s = <<>> THEN <<>>
    ELSE IF Head(s) \in chars THEN lstrip(Tail(s), chars)
    ELSE s

RECURSIVE rstrip(_, _)
rstrip(s, chars) ==
    IF s = <<>> THEN <<>>
    ELSE IF s[Len(s)] \in chars THEN rstrip(SubSeq(s, 1, Len(s) - 1), chars)
    ELSE s

strip(s) == rstrip(lstrip(s, Whitespace), Whitespace)

\* s.split(): the maximal runs of non-whitespace characters, in order
RECURSIVE split_ws(_, _, _)
split_ws(s, cur, acc) ==
    IF s = <<>> THEN (IF cur = <<>> THEN acc ELSE Append(acc, cur))
    ELSE IF Head(s) \in Whitespace
         THEN split_ws(Tail(s), <<>>, IF cur = <<>> THEN acc ELSE Append(acc, cur))
         ELSE split_ws(Tail(s), Append(cur, Head(s)), acc)

split(s) == split_ws(s, <<>>, <<>>)

\* s.split(sep) for a one-character separator: empty parts are kept
RECURSIVE split_sep(_, _, _, _)
split_sep(s, sep, cur, acc) ==
    IF s = <<>> THEN Append(acc, cur)
    ELSE IF Head(s) = sep
         THEN split_sep(Tail(s), sep, <<>>, Append(acc, cur))
         ELSE split_sep(Tail(s), sep, Append(cur, Head(s)), acc)

split_on(s, sep) == split_sep(s, sep, <<>>, <<>>)

startswith(s, p) == Len(s) >= Len(p) /\ SubSeq(s, 1, Len(p)) = p

\* s.replace(old, ''): every non-overlapping occurrence, left to right
RECURSIVE remove_all(_, _)
remove_all(s, old) ==
    IF Len(s) < Len(old) THEN s
    ELSE IF startswith(s, old) THEN remove_all(SubSeq(s, Len(old) + 1, Len(s)), old)
    ELSE <<Head(s)>> \o remove_all(Tail(s), old)

(***************************************************************************)
(* Python dict operations on insertion-ordered sequences of pairs.         *)
(***************************************************************************)
keys(d) == {d[i][1] : i \in 1..Len(d)}

has_key(d, k) == \E i \in 1..Len(d) : d[i][1] = k

get(d, k) == d[CHOOSE i \in 1..Len(d) : d[i][1] = k][2]

\* d[k] = v: an existing key keeps its position, a new key goes last
setitem(d, k, v) ==
    IF has_key(d, k)
    THEN [i \in 1..Len(d) |-> IF d[i][1] = k THEN <<k, v>> ELSE d[i]]
    ELSE Append(d, <<k, v>>)

\* d.update(other)
RECURSIVE update(_, _)
update(d, other) ==
    IF other = <<>> THEN d
    ELSE update(setitem(d, Head(other)[1], Head(other)[2]), Tail(other))

distinct_keys(d) == \A i, j \in 1..Len(d) : d[i][1] = d[j][1] => i = j

(***************************************************************************)
(* load_package_json                                                       *)
(***************************************************************************)
\* mutant of dep_types: devDependencies merged before dependencies
dep_types_dev_first == <<"devDependencies", "dependencies", "peerDependencies",
                         "optionalDependencies">>

dep_types == <<"dependencies", "devDependencies", "peerDependencies",
               "optionalDependencies">>

\* the loop over dep_type: all_deps.update(pkg[dep_type]) for each present one
RECURSIVE collect_deps(_, _, _)
collect_deps(pkg, all_deps, i) ==
    IF i > Len(dep_types) THEN all_deps
    ELSE collect_deps(pkg,
                      IF dep_types[i] \in DOMAIN pkg
                      THEN update(all_deps, pkg[dep_types[i]])
                      ELSE all_deps,
                      i + 1)

\* the characters of '^~>=<'
version_prefixes == {94, 126, 62, 61, 60}

\* version.lstrip('^~>=<').split()
version_parts(version) == split(lstrip(version, version_prefixes))

\* version.lstrip('^~>=<').split()[0]; IndexError when there is no part
clean_version(version) == version_parts(version)[1]

clean_raises(version) == version_parts(version) = <<>>

\* the loop building cleaned_deps from all_deps
RECURSIVE clean_deps(_, _)
clean_deps(all_deps, cleaned_deps) ==
    IF all_deps = <<>> THEN cleaned_deps
    ELSE clean_deps(Tail(all_deps),
                    setitem(cleaned_deps, Head(all_deps)[1],
                            clean_version(Head(all_deps)[2])))

\* does the try block of load_package_json raise
package_json_raises(file) ==
    \/ ~file.parse_ok
    \/ \E i \in 1..Len(collect_deps(file.pkg, <<>>, 1)) :
          clean_raises(collect_deps(file.pkg, <<>>, 1)[i][2])

\* the value load_package_json returns when it returns
load_package_json(file) == clean_deps(collect_deps(file.pkg, <<>>, 1), <<>>)

(***************************************************************************)
(* load_package_lock                                                       *)
(***************************************************************************)
\* 'node_modules/'
node_modules == <<110, 111, 100, 101, 95, 109, 111, 100, 117, 108, 101, 115, 47>>

\* package_name as computed from package_path in the 'packages' loop
package_name_of(package_path) ==
    LET package_name == remove_all(package_path, node_modules)
        parts == split_on(package_name, 47)                       \* split('/')
    IN  IF startswith(package_name, <<64>>) /\ Len(parts) >= 2      \* '@'
        THEN parts[1] \o <<47>> \o parts[2]
        ELSE package_name

\* the 'packages' loop; 'version' in package_info raises TypeError on null
RECURSIVE packages_loop(_, _)
packages_loop(items, all_packages) ==
    IF items = <<>> THEN [raised |-> FALSE, all_packages |-> all_packages]
    ELSE LET package_path == Head(items)[1]
             package_info == Head(items)[2]
         IN  IF package_path = <<>> THEN packages_loop(Tail(items), all_packages)
             ELSE IF package_info.type = "null"
                  THEN [raised |-> TRUE, all_packages |-> all_packages]
             ELSE IF package_info.has_version
                  THEN packages_loop(Tail(items),
                                     setitem(all_packages,
                                             package_name_of(package_path),
                                             package_info.version))
             ELSE packages_loop(Tail(items), all_packages)

\* lock.get('packages', {}).items() raises AttributeError unless a dict
packages_section(section, all_packages) ==
    IF ~section.is_dict THEN [raised |-> TRUE, all_packages |-> all_packages]
    ELSE packages_loop(section.items, all_packages)

\* extract_deps(deps_dict): deps_dict.items() raises unless a dict; the
\* accumulator all_packages is shared by reference across the recursion
RECURSIVE extract_deps(_, _)
RECURSIVE extract_deps_loop(_, _)
\* mutant of extract_deps_loop: a name already recorded keeps its version
RECURSIVE extract_deps_loop_first_wins(_, _)
extract_deps_loop_first_wins(items, all_packages) ==
    IF items = <<>> THEN [raised |-> FALSE, all_packages |-> all_packages]
    ELSE LET name == Head(items)[1]
             info == Head(items)[2]
             after_version ==
                 IF info.type = "dict" /\ info.has_version /\ ~has_key(all_packages, name)
                 THEN setitem(all_packages, name, info.version)
                 ELSE all_packages
             after_deps ==
                 IF info.type = "dict" /\ info.has_deps
                 THEN extract_deps(info.deps, after_version)
                 ELSE [raised |-> FALSE, all_packages |-> after_version]
         IN  IF after_deps.raised THEN after_deps
             ELSE extract_deps_loop_first_wins(Tail(items), after_deps.all_packages)

extract_deps(deps_dict, all_packages) ==
    IF ~deps_dict.is_dict THEN [raised |-> TRUE, all_packages |-> all_packages]
    ELSE extract_deps_loop(deps_dict.items, all_packages)

extract_deps_loop(items, all_packages) ==
    IF items = <<>> THEN [raised |-> FALSE, all_packages |-> all_packages]
    ELSE LET name == Head(items)[1]
             info == Head(items)[2]
             after_version ==
                 IF info.type = "dict" /\ info.has_version
                 THEN setitem(all_packages, name, info.version)
                 ELSE all_packages
             after_deps ==
                 IF info.type = "dict" /\ info.has_deps
                 THEN extract_deps(info.deps, after_version)
                 ELSE [raised |-> FALSE, all_packages |-> after_version]
         IN  IF after_deps.raised THEN after_deps
             ELSE extract_deps_loop(Tail(items), after_deps.all_packages)

\* the body of the try block, after json.load
lock_body(lock) ==
    LET after_packages ==
            IF "packages" \in DOMAIN lock
            THEN packages_section(lock.packages, <<>>)
            ELSE [raised |-> FALSE, all_packages |-> <<>>]
    IN  IF after_packages.raised THEN after_packages
        ELSE IF "dependencies" \in DOMAIN lock
             THEN extract_deps(lock.dependencies, after_packages.all_packages)
             ELSE after_packages

\* does the try block of load_package_lock raise
package_lock_raises(file) == ~file.parse_ok \/ lock_body(file.lock).raised

\* mutant of lock_except: the entries extracted before the failure are kept
lock_except_partial(partial) == partial

\* what the except handler of load_package_lock returns
lock_except(partial) == <<>>

load_package_lock(file) ==
    IF ~file.exists THEN <<>>
    ELSE IF ~file.parse_ok THEN lock_except(<<>>)
    ELSE IF lock_body(file.lock).raised
         THEN lock_except(lock_body(file.lock).all_packages)
    ELSE lock_body(file.lock).all_packages

(***************************************************************************)
(* load_infected_packages                                                  *)
(***************************************************************************)
\* the loop over the rows after the header
RECURSIVE infected_rows(_, _)
infected_rows(rows, infected) ==
    IF rows = <<>> THEN infected
    ELSE LET row == Head(rows)
         IN  infected_rows(Tail(rows),
                 IF Len(row) >= 2
                 THEN infected \cup {<<strip(row[1]),
                                       lstrip(strip(row[2]), {61, 32})>>}  \* '= '
                 ELSE infected)

\* csv.field_size_limit(): csv.reader raises csv.Error on a longer field
field_size_limit == 131072

csv_raises(rows) ==
    \E i \in 1..Len(rows) : \E j \in 1..Len(rows[i]) :
        Len(rows[i][j]) > field_size_limit

\* open() fails, the content does not decode, csv.reader rejects a field, or
\* next(reader) raises StopIteration on an empty file
infected_raises(file) ==
    \/ ~file.exists \/ ~file.readable \/ ~file.decodes
    \/ file.rows = <<>> \/ csv_raises(file.rows)

\* mutant of load_infected_packages: the header row is not skipped
load_infected_packages_with_header(file) == infected_rows(file.rows, {})

load_infected_packages(file) == infected_rows(Tail(file.rows), {})

(***************************************************************************)
(* scan_packages and the merge in main                                     *)
(***************************************************************************)
\* a lock version that is a JSON list or object, a value that cannot be
\* hashed (no character has the code point -1); a version that is no string
\* but can be hashed, a number or null, is a value no advisory row holds
unhashable == <<-1>>

\* (package_name, version) in infected raises TypeError on such a version
scan_raises(installed) == \E i \in 1..Len(installed) : installed[i][2] = unhashable

\* mutant of is_infected: the version is not compared
is_infected_by_name(entry, infected) == \E adv \in infected : adv[1] = entry[1]

is_infected(entry, infected) == <<entry[1], entry[2]>> \in infected

RECURSIVE scan_packages(_, _)
scan_packages(installed, infected) ==
    IF installed = <<>> THEN <<>>
    ELSE IF is_infected(Head(installed), infected)
         THEN <<Head(installed)>> \o scan_packages(Tail(installed), infected)
         ELSE scan_packages(Tail(installed), infected)

\* mutant of merge_lock: the lock's version replaces the manifest's
merge_lock_overwrite(installed, lock_items) == update(installed, lock_items)

\* for name, version in lock_packages.items(): add when name is new
RECURSIVE merge_lock(_, _)
merge_lock(installed, lock_items) ==
    IF lock_items = <<>> THEN installed
    ELSE merge_lock(IF ~has_key(installed, Head(lock_items)[1])
                    THEN setitem(installed, Head(lock_items)[1], Head(lock_items)[2])
                    ELSE installed,
                    Tail(lock_items))

(***************************************************************************)
(* main                                                                    *)
(***************************************************************************)
\* sys.exit(status), or the normal return of main with status 0
exit(status) == pc' = "done" /\ exit_code' = status

\* f.write(content) and the flush at the end of the with block raise
\* nothing: on a file where the write of a byte fails, only the empty text,
\* which writes no byte, is written without error
write_succeeds(content, file) ==
    \/ file.write \in {"ok", "discarded"}
    \/ file.write = "write_fails" /\ content = <<>>

\* download_csv returns True: urlopen, read and decode succeed, and so do
\* open(CSV_FILE, 'w') and the write; any exception of the try block makes it
\* return False
download_csv(response, file) ==
    response.ok /\ file.write # "open_fails" /\ write_succeeds(response.rows, file)

\* the rows csv.reader gives for a row of text cut short: some first fields
\* whole and the next one cut, to nothing when the cut falls right after a
\* comma or after the opening quote of a quoted field
partial_rows(row) ==
    UNION {{Append(SubSeq(row, 1, j - 1), SubSeq(row[j], 1, p)) :
                p \in 0..Len(row[j])} : j \in 1..Len(row)}

\* the rows of the prefixes of a text whose rows are rows
truncations(rows) ==
    {SubSeq(rows, 1, k) : k \in 0..Len(rows)}
        \cup UNION {{Append(SubSeq(rows, 1, k - 1), partial) :
                        partial \in partial_rows(rows[k])} : k \in 1..Len(rows)}

has_multibyte(rows) ==
    \E i \in 1..Len(rows) : \E j \in 1..Len(rows[i]) :
        \E k \in 1..Len(rows[i][j]) : rows[i][j][k] >= 128

\* CSV_FILE after download_csv.  It is untouched when the fetch or
\* open(CSV_FILE, 'w') fails, and when it is a sink that discards what is
\* written; it holds the fetched text when the write succeeds; it is
\* truncated to a prefix of the text when the write fails (cut inside a
\* character, it no longer decodes).  The write changes neither who may open
\* the file nor what writing to it does.
written_files(response, file) ==
    IF ~response.ok \/ file.write \in {"open_fails", "discarded"} THEN {file}
    ELSE IF write_succeeds(response.rows, file)
         THEN {[file EXCEPT !.exists = TRUE, !.decodes = TRUE, !.rows = response.rows]}
    ELSE {[file EXCEPT !.exists = TRUE, !.decodes = TRUE, !.rows = r] :
              r \in truncations(response.rows)}
         \cup (IF has_multibyte(response.rows)
               THEN {[file EXCEPT !.exists = TRUE, !.decodes = FALSE, !.rows = <<>>]}
               ELSE {})

\* lines 154-169: the test-mode check of CSV_FILE, or download_csv
DownloadCsv ==
    /\ pc = "start"
    /\ IF test_mode
       THEN IF ~csv_file.exists
            THEN exit(1) /\ UNCHANGED csv_file
            ELSE pc' = "load_package_json" /\ UNCHANGED <<csv_file, exit_code>>
       ELSE /\ csv_file' \in written_files(feed, csv_file)
            /\ IF download_csv(feed, csv_file)
               THEN pc' = "load_package_json" /\ UNCHANGED exit_code
               ELSE exit(1)
    /\ UNCHANGED <<test_mode, feed, package_json, package_lock, installed_packages,
                   lock_packages, infected_packages, infections>>

\* line 174: installed_packages = load_package_json()
LoadPackageJson ==
    /\ pc = "load_package_json"
    /\ IF ~package_json.exists \/ package_json_raises(package_json)
       THEN exit(1) /\ UNCHANGED installed_packages
       ELSE /\ installed_packages' = load_package_json(package_json)
            /\ pc' = "load_package_lock"
            /\ UNCHANGED exit_code
    /\ UNCHANGED <<test_mode, feed, csv_file, package_json, package_lock,
                   lock_packages, infected_packages, infections>>

\* lines 181-191: lock_packages = load_package_lock() and the merge
LoadPackageLock ==
    /\ pc = "load_package_lock"
    /\ lock_packages' = load_package_lock(package_lock)
    /\ installed_packages' =
           IF lock_packages' # <<>>
           THEN merge_lock(installed_packages, lock_packages')
           ELSE installed_packages
    /\ pc' = "load_infected_packages"
    /\ UNCHANGED <<test_mode, feed, csv_file, package_json, package_lock,
                   infected_packages, infections, exit_code>>

\* line 194: infected_packages = load_infected_packages()
LoadInfectedPackages ==
    /\ pc = "load_infected_packages"
    /\ IF infected_raises(csv_file)
       THEN exit(1) /\ UNCHANGED infected_packages
       ELSE /\ infected_packages' = load_infected_packages(csv_file)
            /\ pc' = "scan_packages"
            /\ UNCHANGED exit_code
    /\ UNCHANGED <<test_mode, feed, csv_file, package_json, package_lock,
                   installed_packages, lock_packages, infections>>

\* lines 202-233: infections = scan_packages(...), the report and the exit;
\* the TypeError of scan_packages is caught nowhere and ends the run with
\* the interpreter's status 1
ScanPackages ==
    /\ pc = "scan_packages"
    /\ IF scan_raises(installed_packages)
       THEN exit(1) /\ UNCHANGED infections
       ELSE /\ infections' = scan_packages(installed_packages, infected_packages)
            /\ IF infections' # <<>> THEN exit(1) ELSE exit(0)
    /\ UNCHANGED <<test_mode, feed, csv_file, package_json, package_lock,
                   installed_packages, lock_packages, infected_packages>>

Next ==
    \/ DownloadCsv
    \/ LoadPackageJson
    \/ LoadPackageLock
    \/ LoadInfectedPackages
    \/ ScanPackages

(***************************************************************************)
(* Inputs.                                                                 *)
(***************************************************************************)
seqs_upto(S, n) == UNION {[1..k -> S] : k \in 0..n}

dicts_upto(Items, n) == {d \in seqs_upto(Items, n) : distinct_keys(d)}

name_a == <<97>>        \* "a"
name_b == <<98>>        \* "b"
name_c == <<99>>        \* "c"
v1 == <<49>>            \* "1"
v2 == <<50>>            \* "2"
header == <<<<112, 107, 103>>, <<118, 101, 114>>>>      \* pkg,ver

\* the state of main before its first statement
Locals ==
    /\ pc = "start"
    /\ installed_packages = <<>>
    /\ lock_packages = <<>>
    /\ infected_packages = {}
    /\ infections = <<>>
    /\ exit_code = -1

no_feed == [ok |-> FALSE, rows |-> <<>>]
\* CSV_FILE, a regular file, a directory, a sink such as /dev/null, or
\* absent: exists is Path(CSV_FILE).exists(); readable, open(CSV_FILE, 'r')
\* succeeds (for an absent file: on the file open(CSV_FILE, 'w') creates);
\* decodes, its content is valid text; rows, the rows csv.reader gives for
\* its content when no field is over the size limit (<<>> when it does not
\* decode); write, what open(CSV_FILE, 'w') and the write of a text do: "ok",
\* "open_fails" (a directory, no permission), "write_fails" (full disk, file
\* size limit: open succeeds and the write of a text that is not empty
\* fails, leaving a prefix of it) or "discarded" (a sink: the write succeeds
\* and nothing is kept)
csv_of(rows) ==
    [exists |-> TRUE, readable |-> TRUE, decodes |-> TRUE, write |-> "ok", rows |-> rows]
no_csv ==
    [exists |-> FALSE, readable |-> TRUE, decodes |-> TRUE, write |-> "ok", rows |-> <<>>]
unreadable_csv ==
    [exists |-> TRUE, readable |-> FALSE, decodes |-> TRUE, write |-> "ok", rows |-> <<>>]
undecodable_csv ==
    [exists |-> TRUE, readable |-> TRUE, decodes |-> FALSE, write |-> "ok", rows |-> <<>>]
sink_csv ==
    [exists |-> TRUE, readable |-> TRUE, decodes |-> TRUE, write |-> "discarded",
     rows |-> <<>>]
write_modes == {"ok", "open_fails", "write_fails"}
manifest_of(pkg) == [exists |-> TRUE, parse_ok |-> TRUE, pkg |-> pkg]
no_manifest == [exists |-> FALSE, parse_ok |-> FALSE, pkg |-> <<>>]
lock_of(lock) == [exists |-> TRUE, parse_ok |-> TRUE, lock |-> lock]
no_lock == [exists |-> FALSE, parse_ok |-> FALSE, lock |-> <<>>]
dict_of(items) == [is_dict |-> TRUE, items |-> items]
not_a_dict == [is_dict |-> FALSE, items |-> <<>>]
info_of(version) == [type |-> "dict", has_version |-> TRUE, version |-> version]
info_plain == [type |-> "dict", has_version |-> FALSE, version |-> <<>>]
info_null == [type |-> "null", has_version |-> FALSE, version |-> <<>>]

\* a node of the nested 'dependencies' tree
node_of(has_version, version, children) ==
    [type |-> "dict", has_version |-> has_version, version |-> version,
     has_deps |-> children # <<>>, deps |-> dict_of(children)]
node_str == [type |-> "str", has_version |-> FALSE, version |-> <<>>,
             has_deps |-> FALSE, deps |-> dict_of(<<>>)]
node_bad_deps == [type |-> "dict", has_version |-> TRUE, version |-> v2,
                  has_deps |-> TRUE, deps |-> not_a_dict]

small_csv == csv_of(<<header, <<name_a, v1>>, <<name_b, v2>>>>)

(***************************************************************************)
(* Spec: whole runs of main over a set of files that covers every way a    *)
(* run can end.                                                            *)
(***************************************************************************)
CsvDocs ==
    { <<>>,
      <<header>>,
      <<header, <<name_a, v1>>>>,
      <<header, <<name_b, <<61, 32, 50>>>>, <<name_c>>>> }     \* b,= 2 and c

Feeds ==
    {no_feed} \cup {[ok |-> TRUE, rows |-> r] : r \in CsvDocs}
        \cup {[ok |-> TRUE, rows |-> <<header, <<<<233>>, v1>>>>]}

CsvFiles ==
    {[f EXCEPT !.write = w] :
         f \in {no_csv, [no_csv EXCEPT !.readable = FALSE],
                unreadable_csv, undecodable_csv} \cup {csv_of(r) : r \in CsvDocs},
         w \in write_modes}
        \cup {sink_csv}

Manifests ==
    { no_manifest,
      [exists |-> TRUE, parse_ok |-> FALSE, pkg |-> <<>>],
      manifest_of([dependencies |-> <<<<name_a, <<94, 49>>>>>>]),
      manifest_of([dependencies |-> <<<<name_a, v2>>>>,
                   devDependencies |-> <<<<name_c, v1>>>>]),
      manifest_of([peerDependencies |-> <<<<name_a, <<94>>>>>>]) }

Locks ==
    { no_lock,
      [exists |-> TRUE, parse_ok |-> FALSE, lock |-> <<>>],
      lock_of([packages |-> dict_of(<<
          <<<<>>, info_plain>>,
          <<node_modules \o name_b, info_of(v2)>>,
          <<node_modules \o name_a, info_of(v1)>> >>)]),
      lock_of([packages |-> dict_of(<<
          <<node_modules \o name_b, info_of(v2)>>,
          <<node_modules \o name_c, info_null>> >>)]),
      lock_of([packages |-> not_a_dict]),
      lock_of([dependencies |-> dict_of(<<
          <<name_a, node_of(TRUE, v1, << <<name_b, node_of(TRUE, v2, <<>>)>> >>)>>,
          <<name_c, node_str>> >>)]),
      lock_of([dependencies |-> dict_of(<<
          <<name_b, node_bad_deps>> >>)]),
      lock_of([packages |-> dict_of(<< <<node_modules \o name_a, info_of(v1)>> >>),
               dependencies |-> dict_of(<< <<name_b, node_of(TRUE, v2, <<>>)>> >>)]),
      lock_of([packages |-> dict_of(<< <<node_modules \o name_b, info_of(v2)>> >>),
               dependencies |-> not_a_dict]),
      lock_of([packages |-> dict_of(<<
          <<node_modules \o name_b, info_of(unhashable)>> >>)]),
      lock_of([dependencies |-> dict_of(<<
          <<name_a, node_of(TRUE, unhashable, <<>>)>> >>)]),
      lock_of([packages |-> dict_of(<<
          <<node_modules \o name_b, info_of(unhashable)>>,
          <<node_modules \o name_c, info_null>> >>)]) }

Init ==
    /\ Locals
    /\ test_mode \in BOOLEAN
    /\ feed \in Feeds
    /\ csv_file \in CsvFiles
    /\ package_json \in Manifests
    /\ package_lock \in Locks

Spec == Init /\ [][Next]_vars

(***************************************************************************)
(* Exit status (C5), under Spec.                                           *)
(***************************************************************************)
\* the offline cache file is missing, or the live download failed (the
\* fetch, or the write of the fetched text to CSV_FILE)
feed_fatal ==
    IF test_mode THEN ~csv_file.exists
    ELSE \/ ~feed.ok
         \/ csv_file.write = "open_fails"
         \/ csv_file.write = "write_fails" /\ feed.rows # <<>>

manifest_fatal == ~package_json.exists \/ package_json_raises(package_json)

advisory_fatal == infected_raises(csv_file)

no_fatal == ~feed_fatal /\ ~manifest_fatal /\ ~advisory_fatal

\* C5: a run ends with exit status 0 exactly when no fatal precondition
\* occurred (feed download failure in live mode, missing cache file in offline
\* mode, missing or unparseable manifest, unreadable advisory file) and the
\* match list is empty, and with a non-zero status otherwise; with the
\* manifest missing the run ends non-zero without ever reaching the parsing
\* of the advisory file or the matching.
C5_ExitStatus ==
    /\ pc = "done" =>
          /\ exit_code \in {0, 1}
          /\ exit_code = 0 <=> (no_fatal /\ infections = <<>>)
    /\ pc # "done" => exit_code = -1
    /\ ~package_json.exists =>
          /\ pc \in {"start", "load_package_json", "done"}
          /\ infected_packages = {} /\ infections = <<>>
          /\ pc = "done" => exit_code # 0

(***************************************************************************)
(* SpecVersion: one declared dependency whose version expression ranges    *)
(* over every string of VersionChars up to MaxVersionLen.                  *)
(***************************************************************************)
\* ^ = space \t \r 1 .
VersionChars == {94, 61, 32, 9, 13, 49, 46}

example_versions ==
    { <<32, 32, 32, 61, 32, 50, 46, 48, 46, 48>>,
      <<94, 49, 46, 50, 46, 51>> }

VersionExprs == seqs_upto(VersionChars, MaxVersionLen) \cup example_versions

\* the files every input family shares
OfflineRun == test_mode = TRUE /\ feed = no_feed

InitVersion ==
    /\ Locals /\ OfflineRun
    /\ csv_file = small_csv
    /\ package_lock = no_lock
    /\ package_json \in
           {manifest_of([dependencies |-> <<<<name_a, v>>>>]) : v \in VersionExprs}

SpecVersion == InitVersion /\ [][Next]_vars

(***************************************************************************)
(* SpecLockFailure: offline runs over every manifest and lock document of  *)
(* Spec and every state of the cached advisory file; the recoverable lock  *)
(* failure (C6).                                                           *)
(***************************************************************************)
CachedCsvFiles ==
    {no_csv, unreadable_csv, undecodable_csv} \cup {csv_of(r) : r \in CsvDocs}

InitLockFailure ==
    /\ Locals /\ OfflineRun
    /\ csv_file \in CachedCsvFiles
    /\ package_json \in Manifests
    /\ package_lock \in Locks

SpecLockFailure == InitLockFailure /\ [][Next]_vars

lock_fails == package_lock.exists /\ package_lock_raises(package_lock)

\* C6: when the lock file is present but its processing fails at any point,
\* load_package_lock yields the empty mapping, the installed map is exactly
\* the manifest-derived map, the run goes on to the matching, and the exit
\* status is decided by the matches of the manifest-derived map alone.
C6_LockFailureRecovered ==
    lock_fails =>
        /\ (pc \in {"load_infected_packages", "scan_packages", "done"}
               /\ ~feed_fatal /\ ~manifest_fatal) =>
              /\ lock_packages = <<>>
              /\ installed_packages = load_package_json(package_json)
        /\ (pc = "done" /\ no_fatal) =>
              /\ infections = scan_packages(load_package_json(package_json),
                                            load_infected_packages(csv_file))
              /\ exit_code = IF infections = <<>> THEN 0 ELSE 1

C6_Witness ==
    /\ lock_fails /\ package_lock.parse_ok
    /\ lock_body(package_lock.lock).all_packages # <<>>
    /\ pc = "done" /\ no_fatal /\ infections # <<>>

(***************************************************************************)
(* SpecManifest: every manifest whose categories are absent or declare up  *)
(* to MaxDeps of two names.                                                *)
(***************************************************************************)
ManifestVersions == {v1, <<94, 50>>}

DepDicts == dicts_upto({name_a, name_b} \X ManifestVersions, MaxDeps)

Pkgs ==
    UNION {[S -> DepDicts] : S \in SUBSET {dep_types[i] : i \in 1..Len(dep_types)}}

InitManifest ==
    /\ Locals /\ OfflineRun
    /\ csv_file = small_csv
    /\ package_lock = no_lock
    /\ package_json \in {manifest_of(pkg) : pkg \in Pkgs}

SpecManifest == InitManifest /\ [][Next]_vars

(***************************************************************************)
(* SpecLockPaths: path-keyed lock documents of up to MaxLockEntries        *)
(* entries, over install paths nested up to MaxNest deep.                  *)
(***************************************************************************)
scoped_pkg == <<64, 115, 99, 111, 112, 101, 47, 112, 107, 103>>   \* "@scope/pkg"
scoped_ab == <<64, 97, 47, 98>>     \* "@a/b"
name_sub == <<115, 117, 98>>       \* "sub"
name_x == <<120>>                  \* "x"

PathNames == {name_x, name_sub, scoped_pkg, scoped_ab}

RECURSIVE install_paths(_)
install_paths(depth) ==
    IF depth = 1 THEN {node_modules \o n : n \in PathNames}
    ELSE {q \o <<47>> \o node_modules \o n :
              q \in install_paths(depth - 1), n \in PathNames}

LockPaths == {<<>>} \cup UNION {install_paths(k) : k \in 1..MaxNest}

PathDicts == dicts_upto(LockPaths \X {info_of(v1), info_of(v2)}, MaxLockEntries)

fixed_manifest == manifest_of([dependencies |-> <<<<name_a, v1>>>>])

InitLockPaths ==
    /\ Locals /\ OfflineRun
    /\ csv_file = small_csv
    /\ package_json = fixed_manifest
    /\ package_lock \in {lock_of([packages |-> dict_of(d)]) : d \in PathDicts}

SpecLockPaths == InitLockPaths /\ [][Next]_vars

(***************************************************************************)
(* SpecLockTree: nested-tree lock documents of up to MaxNodes nodes, so of *)
(* depth up to MaxNodes.                                                   *)
(***************************************************************************)
NodeLabels ==
    {name_a, name_b} \X {<<FALSE, <<>>>>, <<TRUE, v1>>, <<TRUE, v2>>}

\* the dicts of exactly n nodes in all, nested ones included
RECURSIVE forests(_)
forests(n) ==
    IF n = 0 THEN {<<>>}
    ELSE UNION {
        { <<<<t[1][1], node_of(t[1][2][1], t[1][2][2], t[2])>>>> \o t[3] :
            t \in { u \in NodeLabels \X forests(k - 1) \X forests(n - k) :
                        ~has_key(u[3], u[1][1]) } } : k \in 1..n }

Forests == UNION {forests(n) : n \in 0..MaxNodes}

InitLockTree ==
    /\ Locals /\ OfflineRun
    /\ csv_file = small_csv
    /\ package_json = fixed_manifest
    /\ package_lock \in {lock_of([dependencies |-> dict_of(f)]) : f \in Forests}

SpecLockTree == InitLockTree /\ [][Next]_vars

(***************************************************************************)
(* SpecCsv: advisory files of a header and up to MaxRows rows of up to     *)
(* MaxCols columns.                                                        *)
(***************************************************************************)
\* " a" and "= 1\f"
CsvFields == {<<32, 97>>, <<61, 32, 49, 12>>}

CsvRows == seqs_upto(CsvFields, MaxCols)

InitCsv ==
    /\ Locals /\ OfflineRun
    /\ package_json = fixed_manifest
    /\ package_lock = no_lock
    /\ csv_file \in {csv_of(rows) : rows \in seqs_upto(CsvRows, MaxRows + 1)}

SpecCsv == InitCsv /\ [][Next]_vars

(***************************************************************************)
(* SpecMerge: a manifest, a flat lock document and an advisory file over   *)
(* overlapping names.                                                      *)
(***************************************************************************)
MaxMerge == 2

MergeManifests == dicts_upto({name_a, name_b} \X {v1, v2}, MaxMerge)

MergeLocks ==
    { [i \in 1..Len(d) |-> <<d[i][1], node_of(TRUE, d[i][2], <<>>)>>] :
          d \in dicts_upto({name_a, name_c, name_x} \X {v1, v2}, MaxMerge) }

MergeAdvisories ==
    { <<header>> \o rows :
          rows \in seqs_upto({<<n, v>> : n \in {name_a, name_c}, v \in {v1, v2}},
                             MaxMerge) }

InitMerge ==
    /\ Locals /\ OfflineRun
    /\ package_json \in {manifest_of([dependencies |-> d]) : d \in MergeManifests}
    /\ package_lock \in {lock_of([dependencies |-> dict_of(l)]) : l \in MergeLocks}
    /\ csv_file \in {csv_of(rows) : rows \in MergeAdvisories}

SpecMerge == InitMerge /\ [][Next]_vars

(***************************************************************************)
(* Version normalization (C1), under SpecVersion.                          *)
(***************************************************************************)
\* the first index of s whose character is not in chars, Len(s) + 1 if none
first_not_in(s, chars) ==
    IF \E i \in 1..Len(s) : s[i] \notin chars
    THEN CHOOSE i \in 1..Len(s) :
             s[i] \notin chars /\ \A j \in 1..(i - 1) : s[j] \in chars
    ELSE Len(s) + 1

\* the last index of s whose character is not in chars, 0 if none
last_not_in(s, chars) ==
    IF \E i \in 1..Len(s) : s[i] \notin chars
    THEN CHOOSE i \in 1..Len(s) :
             s[i] \notin chars /\ \A j \in (i + 1)..Len(s) : s[j] \in chars
    ELSE 0

\* ^ ~ > = < and space
comparator_chars == {94, 126, 62, 61, 60, 32}

\* the expression without its leading run of comparator characters and
\* spaces, cut at the first remaining whitespace
stripped_token(version) ==
    LET rest == SubSeq(version, first_not_in(version, comparator_chars), Len(version))
        not_space == {rest[k] : k \in 1..Len(rest)} \ Whitespace
    IN  SubSeq(rest, 1, first_not_in(rest, not_space) - 1)

raw_deps == collect_deps(package_json.pkg, <<>>, 1)

\* C1: the version load_package_json stores for a raw expression is the
\* expression without its whole leading run of '^', '~', '>', '=', '<' and
\* space, cut at the first remaining whitespace, and it never begins with one
\* of those characters.
C1_VersionStripped ==
    pc = "load_package_lock" =>
        \A i \in 1..Len(raw_deps) :
            LET stored == get(installed_packages, raw_deps[i][1])
            IN  /\ stored = stripped_token(raw_deps[i][2])
                /\ stored # <<>> => stored[1] \notin comparator_chars

(***************************************************************************)
(* Category merging (C10), under SpecManifest.                             *)
(***************************************************************************)
category_order == <<"dependencies", "devDependencies", "peerDependencies",
                    "optionalDependencies">>

declares(pkg, i, name) ==
    category_order[i] \in DOMAIN pkg /\ has_key(pkg[category_order[i]], name)

declared_names(pkg) ==
    {name \in {name_a, name_b} : \E i \in 1..4 : declares(pkg, i, name)}

last_declaring(pkg, name) ==
    CHOOSE i \in 1..4 :
        declares(pkg, i, name) /\ \A j \in (i + 1)..4 : ~declares(pkg, j, name)

\* C10: the categories are merged in the order dependencies,
\* devDependencies, peerDependencies, optionalDependencies: every declared
\* name gets the cleaned version of the last category in that order that
\* declares it, no other name appears, and merging the same manifest content
\* into the result once more changes nothing.
C10_LaterCategoryWins ==
    pc = "load_package_lock" =>
        LET pkg == package_json.pkg
        IN  /\ keys(installed_packages) = declared_names(pkg)
            /\ \A name \in declared_names(pkg) :
                  get(installed_packages, name) =
                      clean_version(get(pkg[category_order[last_declaring(pkg, name)]],
                                        name))
            /\ clean_deps(collect_deps(pkg, installed_packages, 1), <<>>)
                   = installed_packages

C10_Witness ==
    /\ pc = "load_package_lock"
    /\ declares(package_json.pkg, 1, name_a)
    /\ declares(package_json.pkg, 2, name_a)
    /\ get(package_json.pkg.dependencies, name_a) = v1
    /\ get(package_json.pkg.devDependencies, name_a) = <<94, 50>>
    /\ ~declares(package_json.pkg, 3, name_a)
    /\ ~declares(package_json.pkg, 4, name_a)
    /\ get(installed_packages, name_a) = v2

(***************************************************************************)
(* Path-keyed lock documents (C2, C7), under SpecLockPaths.                *)
(***************************************************************************)
lock_entries == package_lock.lock.packages.items

entry_at(path) == CHOOSE i \in 1..Len(lock_entries) : lock_entries[i][1] = path

top_scoped_path == node_modules \o scoped_pkg

nested_sub_path == top_scoped_path \o <<47>> \o node_modules \o name_sub

\* C2: with both the entry "node_modules/@scope/pkg" and the entry
\* "node_modules/@scope/pkg/node_modules/sub" in the document, in either
\* order and with different versions, "@scope/pkg" maps to the version of the
\* first entry's own metadata, not to the version of the nested "sub".
C2_ScopedNotConflated ==
    (/\ pc = "load_infected_packages"
     /\ \E i \in 1..Len(lock_entries) : lock_entries[i][1] = top_scoped_path
     /\ \E i \in 1..Len(lock_entries) : lock_entries[i][1] = nested_sub_path
     /\ lock_entries[entry_at(top_scoped_path)][2].version
            # lock_entries[entry_at(nested_sub_path)][2].version)
    => /\ has_key(lock_packages, scoped_pkg)
       /\ get(lock_packages, scoped_pkg)
              = lock_entries[entry_at(top_scoped_path)][2].version

endswith(s, p) == Len(s) >= Len(p) /\ SubSeq(s, Len(s) - Len(p) + 1, Len(s)) = p

\* the entries whose install path denotes the package name: the path ends
\* with "node_modules/" followed by the name
denoting(name) ==
    {i \in 1..Len(lock_entries) : endswith(lock_entries[i][1], node_modules \o name)}

\* C7: every entry whose install path denotes a scoped package, top-level or
\* nested under another package's install directory, is recorded under that
\* package's canonical "@scope/name", with the version of the last such
\* entry.
C7_NestedScopedCollapses ==
    pc = "load_infected_packages" =>
        \A name \in {scoped_pkg, scoped_ab} :
            denoting(name) # {} =>
                /\ has_key(lock_packages, name)
                /\ get(lock_packages, name) =
                       lock_entries[CHOOSE i \in denoting(name) :
                                        \A j \in denoting(name) : j <= i][2].version

(***************************************************************************)
(* Nested-tree lock documents (C9), under SpecLockTree.                    *)
(***************************************************************************)
\* the versioned occurrences <<name, version>> of a tree, in the order a
\* depth-first traversal meets them
RECURSIVE occurrences(_)
occurrences(items) ==
    IF items = <<>> THEN <<>>
    ELSE LET info == Head(items)[2]
         IN  (IF info.has_version THEN <<<<Head(items)[1], info.version>>>> ELSE <<>>)
                 \o occurrences(info.deps.items)
                 \o occurrences(Tail(items))

tree_occurrences == occurrences(package_lock.lock.dependencies.items)

\* the nesting level of the deepest versioned node of a tree
RECURSIVE depth_of(_)
depth_of(items) ==
    IF items = <<>> THEN 0
    ELSE LET below == depth_of(Head(items)[2].deps.items)
             here == IF below > 0 \/ Head(items)[2].has_version THEN below + 1 ELSE 0
             rest == depth_of(Tail(items))
         IN  IF here > rest THEN here ELSE rest

\* C9: every package name that occurs with a version at any nesting level of
\* a nested-tree lock document is in the flat mapping load_package_lock
\* returns, no other name is, and the version of a name is that of its
\* occurrence visited last in the depth-first traversal.
C9_TreeFlattened ==
    pc = "load_infected_packages" =>
        /\ keys(lock_packages) =
               {tree_occurrences[i][1] : i \in 1..Len(tree_occurrences)}
        /\ \A i \in 1..Len(tree_occurrences) :
              (\A j \in (i + 1)..Len(tree_occurrences) :
                   tree_occurrences[j][1] # tree_occurrences[i][1])
              => get(lock_packages, tree_occurrences[i][1]) = tree_occurrences[i][2]

C9_Witness ==
    /\ pc = "load_infected_packages"
    /\ depth_of(package_lock.lock.dependencies.items) >= 3
    /\ Len(tree_occurrences) = 3
    /\ tree_occurrences[1][1] = tree_occurrences[3][1]
    /\ tree_occurrences[1][2] # tree_occurrences[3][2]
    /\ get(lock_packages, tree_occurrences[3][1]) = tree_occurrences[3][2]

(***************************************************************************)
(* The advisory file (C8), under SpecCsv.                                  *)
(***************************************************************************)
trimmed(s) == SubSeq(s, first_not_in(s, Whitespace), last_not_in(s, Whitespace))

without_leading(s, chars) == SubSeq(s, first_not_in(s, chars), Len(s))

advisory_pair(row) == <<trimmed(row[1]), without_leading(trimmed(row[2]), {61, 32})>>

\* C8: the set load_infected_packages builds holds, for every row after the
\* header that has two or more columns, the pair of its trimmed name and its
\* trimmed version without leading '=' and spaces, and nothing else: the
\* header and the rows of fewer than two columns contribute nothing.
C8_AdvisoryRows ==
    pc = "scan_packages" =>
        infected_packages =
            {advisory_pair(csv_file.rows[i]) :
                 i \in {j \in 2..Len(csv_file.rows) : Len(csv_file.rows[j]) >= 2}}

C8_Witness ==
    /\ pc = "scan_packages"
    /\ Len(csv_file.rows) = 3
    /\ Len(csv_file.rows[1]) = 2
    /\ Len(csv_file.rows[2]) = 1
    /\ Len(csv_file.rows[3]) = 3
    /\ advisory_pair(csv_file.rows[1]) # advisory_pair(csv_file.rows[3])
    /\ infected_packages = {<<<<97>>, <<49>>>>}

(***************************************************************************)
(* The merge and the matching (C3, C4), under SpecMerge.                   *)
(***************************************************************************)
manifest_map == load_package_json(package_json)

merged == pc \in {"load_infected_packages", "scan_packages", "done"}

\* C3: the installed map has the manifest names and the lock names as its
\* keys; a name of the manifest has the manifest's version whatever the lock
\* says, any other name has the lock's version.
C3_ManifestPrecedence ==
    merged =>
        /\ keys(installed_packages) = keys(manifest_map) \cup keys(lock_packages)
        /\ \A name \in keys(installed_packages) :
              get(installed_packages, name) =
                  IF has_key(manifest_map, name) THEN get(manifest_map, name)
                  ELSE get(lock_packages, name)

C3_Witness ==
    /\ merged
    /\ manifest_map = <<<<name_a, v1>>>>
    /\ lock_packages = <<<<name_a, v2>>, <<name_c, v1>>>>
    /\ installed_packages = <<<<name_a, v1>>, <<name_c, v1>>>>

in_advisory(entry) ==
    \E adv \in infected_packages : adv[1] = entry[1] /\ adv[2] = entry[2]

lock_only(entry) == ~has_key(manifest_map, entry[1])

\* C4: scan_packages returns exactly the installed entries whose name and
\* version are both those of one advisory pair, each name at most once, in the
\* order of the installed map: the manifest entries first, then the lock-only
\* additions, each in their original order.
C4_ExactMatches ==
    (pc = "done" /\ ~advisory_fatal) =>
        /\ infections = SelectSeq(installed_packages, in_advisory)
        /\ distinct_keys(infections)
        /\ installed_packages = manifest_map \o SelectSeq(lock_packages, lock_only)

C4_Witness ==
    /\ pc = "done"
    /\ manifest_map = <<<<name_b, v1>>, <<name_a, v2>>>>
    /\ lock_packages = <<<<name_x, v1>>, <<name_c, v1>>>>
    /\ infected_packages = {<<name_c, v1>>, <<name_a, v1>>}
    /\ infections = <<<<name_c, v1>>>>

====
